---- MODULE Spec2Model ----
(***************************************************************************)
(* Model of the account controller (controller/v1/account/account.go).     *)
(* One HTTP request is in flight per behaviour: the controller keeps no    *)
(* state between requests.  Init draws the request; the handler the route  *)
(* selects runs to completion in one step, recording the steps it took,    *)
(* the calls it made on the Servicer, the responses it wrote and the lines *)
(* it logged.  The Servicer is an interface: its answer is any value of    *)
(* the answer set, chosen when the handler runs.                           *)
(***************************************************************************)
EXTENDS Integers, Sequences, FiniteSets, TLC

VARIABLES pc, route, header, body, answer, svcCalls, responses, steps, logs

vars == <<pc, route, header, body, answer, svcCalls, responses, steps, logs>>

(* ---------------------------- bounds ----------------------------------- *)
MaxLen == 2       \* longest username drawn
MaxWrap == 1      \* deepest wrapping of a service error
MaxID == 2        \* account identifiers 1..MaxID

(* ------------------------- net/http statuses --------------------------- *)
StatusOK == 200
StatusCreated == 201
StatusBadRequest == 400
StatusUnauthorized == 401
StatusConflict == 409
StatusInternalServerError == 500

StatusText(status) ==
    CASE status = StatusOK -> "OK"
      [] status = StatusCreated -> "Created"
      [] status = StatusBadRequest -> "Bad Request"
      [] status = StatusUnauthorized -> "Unauthorized"
      [] status = StatusConflict -> "Conflict"
      [] status = StatusInternalServerError -> "Internal Server Error"

(* ------------------------------ routes --------------------------------- *)
RouteGet == "GET /v1/accounts"
RouteRegister == "POST /v1/accounts/register"
RouteUpdate == "PATCH /v1/accounts"
RouteDelete == "DELETE /v1/accounts"
Routes == {RouteGet, RouteRegister, RouteUpdate, RouteDelete}
AuthRoutes == {RouteGet, RouteUpdate, RouteDelete}

(* ------------------------------ errors --------------------------------- *)
(* An error value is the chain errors.Is walks: zero or more wrapping      *)
(* layers around one leaf.  The empty chain is nil.                        *)
UpdateDomainKinds ==
    {"ErrAccountNotRegistered", "ErrUsernameCannotBeEmpty",
     "ErrPasswordCannotBeEmpty", "ErrUsernameAlreadyExist",
     "ErrEmailAlreadyExist", "ErrKTPNumberAlreadyExist",
     "ErrPhoneNumberAlreadyExist", "ErrInvalidDOBFormat"}
Sentinels == UpdateDomainKinds \cup {"ErrAccountExist"}
Leaves == Sentinels \cup {"other"}
Nil == <<>>
Wrapped(n, k) == [i \in 1..(n + 1) |-> IF i <= n THEN "wrap" ELSE k]
Errors == {Nil} \cup {Wrapped(n, k) : n \in 0..MaxWrap, k \in Leaves}

RECURSIVE Is(_, _)
Is(err, target) ==
    IF err = Nil THEN FALSE
    ELSE IF Head(err) = target THEN TRUE
    ELSE Is(Tail(err), target)

ErrorText(k) ==
    CASE k = "ErrAccountExist" -> "account already exists"
      [] k = "ErrAccountNotRegistered" -> "account not registered"
      [] k = "ErrUsernameCannotBeEmpty" -> "username cannot be empty"
      [] k = "ErrPasswordCannotBeEmpty" -> "password cannot be empty"
      [] k = "ErrUsernameAlreadyExist" -> "username already exists"
      [] k = "ErrEmailAlreadyExist" -> "email already exists"
      [] k = "ErrKTPNumberAlreadyExist" -> "national id number already exists"
      [] k = "ErrPhoneNumberAlreadyExist" -> "phone number already exists"
      [] k = "ErrInvalidDOBFormat" -> "invalid date of birth format"
      [] k = "ErrInvalidFormat" -> "invalid format"
      [] k = "wrap" -> "context"
      [] OTHER -> "unexpected failure"

\* err.Error(): the text of every layer, outermost first
Error(err) == [i \in DOMAIN err |-> ErrorText(err[i])]

(* ----------------------------- strings --------------------------------- *)
(* A username is a sequence of code points.                                *)
Chars == {48, 65, 90, 97, 201}     \* '0' 'A' 'Z' 'a' 'E-acute'
IsUpper(r) == (65 <= r /\ r <= 90) \/ (192 <= r /\ r <= 222 /\ r # 215)
ToLowerRune(r) == IF IsUpper(r) THEN r + 32 ELSE r
ToLower(s) == [i \in DOMAIN s |-> ToLowerRune(s[i])]

Usernames == UNION {[1..n -> Chars] : n \in 0..MaxLen}

(* ----------------------------- requests -------------------------------- *)
IDs == 1..MaxID
\* Authorization header: absent, or a scheme and a token; token 0 is a
\* token that does not verify, token n > 0 is a valid token of account n
NoHeader == [scheme |-> "", token |-> 0]
Headers == {NoHeader} \cup [scheme : {"Bearer", "Basic"}, token : 0..MaxID]

ExtractID(h) ==
    IF h.scheme = "Bearer" /\ h.token # 0
    THEN [ok |-> TRUE, id |-> h.token]
    ELSE [ok |-> FALSE, id |-> 0]

\* body: malformed JSON, JSON that fails struct validation, or valid JSON
Emails == {"e1", "e2"}
Bodies == [kind : {"malformed", "invalid", "valid"},
           Username : Usernames, Email : Emails]

NoReq == [Username |-> <<>>, Email |-> ""]
\* rest.BindJSON: the struct decoded from the body
BindJSON(b) ==
    IF b.kind = "malformed"
    THEN [err |-> TRUE, req |-> NoReq]
    ELSE [err |-> FALSE, req |-> [Username |-> b.Username, Email |-> b.Email]]
\* validation.Validator.Struct
ValidateStruct(b) == b.kind # "valid"

(* ---------------------------- the service ------------------------------ *)
Views == {"v1", "v2"}
ViewMaps == [IDs -> Views]
NoViews == [i \in IDs |-> "v1"]
NoAnswer == [called |-> FALSE, err |-> Nil, view |-> NoViews]
Call(method, id, req) == [method |-> method, id |-> id, req |-> req]

(* ---------------------------- responses -------------------------------- *)
NoData == ""
ResponseMessage(status) ==
    [status |-> status, message |-> StatusText(status),
     field |-> "", text |-> <<>>, data |-> NoData]
ResponseError(status, field, text) ==
    [status |-> status, message |-> StatusText(status),
     field |-> field, text |-> text, data |-> NoData]
ResponseData(status, data) ==
    [status |-> status, message |-> StatusText(status),
     field |-> "", text |-> <<>>, data |-> data]

LogLine(prefix, text) == [prefix |-> prefix, text |-> text]
Out(st, calls, resps, lg) ==
    [steps |-> st, svcCalls |-> calls, responses |-> resps, logs |-> lg]
Then(o, m) ==
    [steps |-> o.steps \o m.steps, svcCalls |-> o.svcCalls \o m.svcCalls,
     responses |-> o.responses \o m.responses, logs |-> o.logs \o m.logs]

(* ------------------- mapping the service's result ---------------------- *)
Respond(r) == Out(<<"respond">>, <<>>, <<r>>, <<>>)
Log(prefix, text) == Out(<<"log">>, <<>>, <<>>, <<LogLine(prefix, text)>>)
Step(name) == Out(<<name>>, <<>>, <<>>, <<>>)
Invoke(method, id, req) == Out(<<"svc">>, <<Call(method, id, req)>>, <<>>, <<>>)

\* mutant: a not-registered account answered as Update and Delete answer it
GetMap_NotRegistered400(err, view) ==
    IF Is(err, "ErrAccountNotRegistered")
    THEN Respond(ResponseError(StatusBadRequest, "accounts",
                               <<ErrorText("ErrAccountNotRegistered")>>))
    ELSE IF err # Nil
    THEN Then(Respond(ResponseMessage(StatusInternalServerError)),
              Log("get account by id:", Error(err)))
    ELSE Respond(ResponseData(StatusOK, view))

GetMap(err, view) ==
    IF err # Nil
    THEN Then(Respond(ResponseMessage(StatusInternalServerError)),
              Log("get account by id:", Error(err)))
    ELSE Respond(ResponseData(StatusOK, view))

\* mutant: the username is submitted as typed
RegisterSubmit_AsTyped(req) == req

RegisterSubmit(req) == [req EXCEPT !.Username = ToLower(req.Username)]

\* mutant: err == ErrAccountExist in place of errors.Is
RegisterMap_Equals(err) ==
    IF err = <<"ErrAccountExist">>
    THEN Respond(ResponseError(StatusConflict, "account",
                               <<ErrorText("ErrAccountExist")>>))
    ELSE IF err # Nil
    THEN Then(Log("register:", Error(err)),
              Respond(ResponseMessage(StatusInternalServerError)))
    ELSE Respond(ResponseMessage(StatusCreated))

RegisterMap(err) ==
    IF Is(err, "ErrAccountExist")
    THEN Respond(ResponseError(StatusConflict, "account",
                               <<ErrorText("ErrAccountExist")>>))
    ELSE IF err # Nil
    THEN Then(Log("register:", Error(err)),
              Respond(ResponseMessage(StatusInternalServerError)))
    ELSE Respond(ResponseMessage(StatusCreated))

UpdateDomain(k) ==
    Respond(ResponseError(StatusBadRequest, "accounts", <<ErrorText(k)>>))
UpdateInternal(err) ==
    Then(Respond(ResponseMessage(StatusInternalServerError)),
         Log("update account: ", Error(err)))

\* mutant: the email branch pasted from the username branch
UpdateMap_EmailPasted(err) ==
    IF err = Nil THEN Respond(ResponseMessage(StatusOK))
    ELSE IF Is(err, "ErrAccountNotRegistered")
    THEN UpdateDomain("ErrAccountNotRegistered")
    ELSE IF Is(err, "ErrUsernameCannotBeEmpty")
    THEN UpdateDomain("ErrUsernameCannotBeEmpty")
    ELSE IF Is(err, "ErrPasswordCannotBeEmpty")
    THEN UpdateDomain("ErrPasswordCannotBeEmpty")
    ELSE IF Is(err, "ErrUsernameAlreadyExist")
    THEN UpdateDomain("ErrUsernameAlreadyExist")
    ELSE IF Is(err, "ErrEmailAlreadyExist")
    THEN UpdateDomain("ErrUsernameAlreadyExist")
    ELSE IF Is(err, "ErrKTPNumberAlreadyExist")
    THEN UpdateDomain("ErrKTPNumberAlreadyExist")
    ELSE IF Is(err, "ErrPhoneNumberAlreadyExist")
    THEN UpdateDomain("ErrPhoneNumberAlreadyExist")
    ELSE IF Is(err, "ErrInvalidDOBFormat")
    THEN UpdateDomain("ErrInvalidDOBFormat")
    ELSE UpdateInternal(err)

\* mutant: the unmatched error's text written into the response
UpdateMap_Leak(err) ==
    IF err = Nil THEN Respond(ResponseMessage(StatusOK))
    ELSE IF \E k \in UpdateDomainKinds : Is(err, k)
    THEN UpdateDomain(CHOOSE k \in UpdateDomainKinds : Is(err, k))
    ELSE Then(Respond(ResponseError(StatusInternalServerError, "accounts",
                                    Error(err))),
              Log("update account: ", Error(err)))

\* mutant: duplicates answered with Conflict, as Register answers them
UpdateMap_Conflict(err) ==
    IF err = Nil THEN Respond(ResponseMessage(StatusOK))
    ELSE IF \E k \in UpdateDomainKinds : Is(err, k)
    THEN LET k == CHOOSE x \in UpdateDomainKinds : Is(err, x)
         IN  IF k \in {"ErrUsernameAlreadyExist", "ErrEmailAlreadyExist",
                       "ErrKTPNumberAlreadyExist", "ErrPhoneNumberAlreadyExist"}
             THEN Respond(ResponseError(StatusConflict, "accounts",
                                        <<ErrorText(k)>>))
             ELSE UpdateDomain(k)
    ELSE UpdateInternal(err)

UpdateMap(err) ==
    IF err = Nil THEN Respond(ResponseMessage(StatusOK))
    ELSE IF Is(err, "ErrAccountNotRegistered")
    THEN UpdateDomain("ErrAccountNotRegistered")
    ELSE IF Is(err, "ErrUsernameCannotBeEmpty")
    THEN UpdateDomain("ErrUsernameCannotBeEmpty")
    ELSE IF Is(err, "ErrPasswordCannotBeEmpty")
    THEN UpdateDomain("ErrPasswordCannotBeEmpty")
    ELSE IF Is(err, "ErrUsernameAlreadyExist")
    THEN UpdateDomain("ErrUsernameAlreadyExist")
    ELSE IF Is(err, "ErrEmailAlreadyExist")
    THEN UpdateDomain("ErrEmailAlreadyExist")
    ELSE IF Is(err, "ErrKTPNumberAlreadyExist")
    THEN UpdateDomain("ErrKTPNumberAlreadyExist")
    ELSE IF Is(err, "ErrPhoneNumberAlreadyExist")
    THEN UpdateDomain("ErrPhoneNumberAlreadyExist")
    ELSE IF Is(err, "ErrInvalidDOBFormat")
    THEN UpdateDomain("ErrInvalidDOBFormat")
    ELSE UpdateInternal(err)

\* mutant: the not-registered branch left out
DeleteMap_NoBranch(err) ==
    IF err = Nil THEN Respond(ResponseMessage(StatusOK))
    ELSE Then(Respond(ResponseMessage(StatusInternalServerError)),
              Log("delete account: ", Error(err)))

DeleteMap(err) ==
    IF err = Nil THEN Respond(ResponseMessage(StatusOK))
    ELSE IF Is(err, "ErrAccountNotRegistered")
    THEN Respond(ResponseError(StatusBadRequest, "accounts",
                               <<ErrorText("ErrAccountNotRegistered")>>))
    ELSE Then(Respond(ResponseMessage(StatusInternalServerError)),
              Log("delete account: ", Error(err)))

(* ----------------------------- handlers -------------------------------- *)
Unauthorized == Respond(ResponseMessage(StatusUnauthorized))
InvalidBody ==
    Respond(ResponseError(StatusBadRequest, "body",
                          <<ErrorText("ErrInvalidFormat")>>))
ValidationText == <<"validation failed">>
InvalidStruct ==
    Then(Log("validate struct:", ValidationText),
         Respond(ResponseError(StatusBadRequest, "validation", ValidationText)))

GetHandler(h, b, ans) ==
    LET ex == ExtractID(h)
    IN  IF ~ex.ok THEN Then(Step("auth"), Unauthorized)
        ELSE Then(Step("auth"),
             Then(Invoke("TakeAccountByID", ex.id, NoReq),
                  GetMap(ans.err, ans.view[ex.id])))

\* mutant: the return after the validation failure left out
RegisterHandler_NoReturn(h, b, ans) ==
    LET bound == BindJSON(b)
        sent == RegisterSubmit(bound.req)
        rest == Then(Step("lower"),
                Then(Invoke("Create", 0, sent), RegisterMap(ans.err)))
    IN  IF bound.err THEN Then(Step("bind"), InvalidBody)
        ELSE IF ValidateStruct(b)
        THEN Then(Step("bind"), Then(Step("validate"),
                  Then(InvalidStruct, rest)))
        ELSE Then(Step("bind"), Then(Step("validate"), rest))

RegisterHandler(h, b, ans) ==
    LET bound == BindJSON(b)
        sent == RegisterSubmit(bound.req)
    IN  IF bound.err THEN Then(Step("bind"), InvalidBody)
        ELSE IF ValidateStruct(b)
        THEN Then(Step("bind"), Then(Step("validate"), InvalidStruct))
        ELSE Then(Step("bind"), Then(Step("validate"),
             Then(Step("lower"),
             Then(Invoke("Create", 0, sent), RegisterMap(ans.err)))))

UpdateHandler(h, b, ans) ==
    LET bound == BindJSON(b)
        ex == ExtractID(h)
    IN  IF bound.err
        THEN Then(Step("bind"),
             Then(Log("bind json:", <<ErrorText("ErrInvalidFormat")>>),
                  InvalidBody))
        ELSE IF ValidateStruct(b)
        THEN Then(Step("bind"), Then(Step("validate"), InvalidStruct))
        ELSE IF ~ex.ok
        THEN Then(Step("bind"), Then(Step("validate"),
             Then(Step("auth"), Unauthorized)))
        ELSE Then(Step("bind"), Then(Step("validate"), Then(Step("auth"),
             Then(Invoke("Update", ex.id, bound.req), UpdateMap(ans.err)))))

DeleteHandler(h, b, ans) ==
    LET ex == ExtractID(h)
    IN  IF ~ex.ok THEN Then(Step("auth"), Unauthorized)
        ELSE Then(Step("auth"),
             Then(Invoke("Delete", ex.id, NoReq), DeleteMap(ans.err)))

(* --------------------------- state machine ----------------------------- *)
Init ==
    /\ pc = "start"
    /\ route \in Routes
    /\ header \in Headers
    /\ body \in Bodies
    /\ answer = NoAnswer
    /\ svcCalls = <<>>
    /\ responses = <<>>
    /\ steps = <<>>
    /\ logs = <<>>

\* the handler's run, and the answer the service gave if it was asked
Finish(o, ans) ==
    /\ pc' = "done"
    /\ answer' = IF o.svcCalls # <<>>
                 THEN [called |-> TRUE, err |-> ans.err, view |-> ans.view]
                 ELSE NoAnswer
    /\ svcCalls' = o.svcCalls
    /\ responses' = o.responses
    /\ steps' = o.steps
    /\ logs' = o.logs
    /\ UNCHANGED <<route, header, body>>

Get ==
    /\ pc = "start" /\ route = RouteGet
    /\ \E err \in Errors, view \in ViewMaps :
          LET ans == [err |-> err, view |-> view]
          IN  Finish(GetHandler(header, body, ans), ans)

Register ==
    /\ pc = "start" /\ route = RouteRegister
    /\ \E err \in Errors :
          LET ans == [err |-> err, view |-> NoViews]
          IN  Finish(RegisterHandler(header, body, ans), ans)

Update ==
    /\ pc = "start" /\ route = RouteUpdate
    /\ \E err \in Errors :
          LET ans == [err |-> err, view |-> NoViews]
          IN  Finish(UpdateHandler(header, body, ans), ans)

Delete ==
    /\ pc = "start" /\ route = RouteDelete
    /\ \E err \in Errors :
          LET ans == [err |-> err, view |-> NoViews]
          IN  Finish(DeleteHandler(header, body, ans), ans)

Next == Get \/ Register \/ Update \/ Delete

Spec == Init /\ [][Next]_vars

(* ------------------------------ claims --------------------------------- *)
Done == pc = "done"
AuthOk == ExtractID(header).ok
OneResponse == Len(responses) = 1
Statuses == {responses[i].status : i \in DOMAIN responses}
Asked == svcCalls # <<>>
\* the lowercase form of a username, letter by letter
IsLowerOf(l, u) ==
    /\ Len(l) = Len(u)
    /\ \A i \in DOMAIN u :
          /\ ~IsUpper(l[i])
          /\ IF IsUpper(u[i]) THEN l[i] - 32 = u[i] ELSE l[i] = u[i]
\* the positions of a step in the handler's run
At(name) == {i \in DOMAIN steps : steps[i] = name}
Before(a, b) == \A i \in At(a), j \in At(b) : i < j

\* C1: Update, Delete and Get answer a request whose Authorization header
\* is missing or invalid with 401 and nothing else, whatever its body.
C1_UnauthenticatedAlways401 ==
    (Done /\ route \in AuthRoutes /\ ~AuthOk)
        => (OneResponse /\ Statuses = {StatusUnauthorized})

C3_RegisterOutcomes ==
    (Done /\ route = RouteRegister)
        => /\ OneResponse
           /\ IF body.kind # "valid"
              THEN responses[1].status = StatusBadRequest /\ ~Asked
              ELSE /\ Asked
                   /\ IF \E n \in 0..Len(answer.err) :
                            answer.err = Wrapped(n, "ErrAccountExist")
                      THEN responses[1] =
                             ResponseError(StatusConflict, "account",
                                           <<ErrorText("ErrAccountExist")>>)
                      ELSE IF answer.err # Nil
                      THEN responses[1].status = StatusInternalServerError
                      ELSE responses[1].status = StatusCreated

C3_Witness ==
    /\ Done /\ route = RouteRegister /\ body.kind = "valid"
    /\ answer.err = Wrapped(1, "ErrAccountExist")
    /\ Statuses = {StatusConflict}

\* C4: an authenticated Update with a valid payload answers each of the
\* eight domain errors with 400 and an `accounts` field carrying that
\* error's own message, so username-exists and email-exists are answered
\* differently; it answers no error with 200.
C4_UpdateDomainErrors ==
    (Done /\ route = RouteUpdate /\ body.kind = "valid" /\ AuthOk)
        => /\ OneResponse
           /\ answer.err = Nil => responses[1] = ResponseMessage(StatusOK)
           /\ \A k \in UpdateDomainKinds :
                 (\E n \in 0..Len(answer.err) : answer.err = Wrapped(n, k))
                     => /\ responses[1].status = StatusBadRequest
                        /\ responses[1].field = "accounts"
                        /\ responses[1].text = <<ErrorText(k)>>
                        /\ \A o \in UpdateDomainKinds \ {k} :
                              responses[1].text # <<ErrorText(o)>>

C4_Witness ==
    /\ Done /\ route = RouteUpdate /\ body.kind = "valid" /\ AuthOk
    /\ answer.err = <<"ErrEmailAlreadyExist">>
    /\ Statuses = {StatusBadRequest}

\* the errors each operation matches by kind
Enumerated ==
    CASE route = RouteGet -> {}
      [] route = RouteRegister -> {"ErrAccountExist"}
      [] route = RouteUpdate -> UpdateDomainKinds
      [] route = RouteDelete -> {"ErrAccountNotRegistered"}
Unmatched ==
    /\ Asked /\ answer.err # Nil
    /\ ~\E k \in Enumerated : Is(answer.err, k)

\* C5: in every operation a service error outside the operation's
\* enumerated set is answered with 500 and the generic status message only:
\* the response has no detail, no data and no text of the error.
C5_UnmatchedIsGenericInternal ==
    (Done /\ Unmatched)
        => /\ OneResponse
           /\ responses[1].status = StatusInternalServerError
           /\ responses[1].message = StatusText(StatusInternalServerError)
           /\ responses[1].field = "" /\ responses[1].text = <<>>
           /\ responses[1].data = NoData

C5_Witness ==
    /\ Done /\ Unmatched /\ route = RouteUpdate
    /\ answer.err = Wrapped(1, "other")
    /\ Statuses = {StatusInternalServerError}

\* C6: Delete answers a failed token extraction with 401; otherwise it asks
\* the service to delete the extracted account and answers not-registered
\* with 400 and an `accounts` field message, any other error with 500, and
\* no error with 200.
C6_DeleteOutcomes ==
    (Done /\ route = RouteDelete)
        => /\ OneResponse
           /\ IF ~AuthOk
              THEN responses[1].status = StatusUnauthorized /\ ~Asked
              ELSE /\ svcCalls = <<Call("Delete", header.token, NoReq)>>
                   /\ IF \E n \in 0..Len(answer.err) :
                            answer.err = Wrapped(n, "ErrAccountNotRegistered")
                      THEN responses[1] =
                             ResponseError(StatusBadRequest, "accounts",
                                 <<ErrorText("ErrAccountNotRegistered")>>)
                      ELSE IF answer.err # Nil
                      THEN responses[1].status = StatusInternalServerError
                      ELSE responses[1].status = StatusOK

C6_Witness ==
    /\ Done /\ route = RouteDelete /\ AuthOk
    /\ answer.err = Wrapped(1, "ErrAccountNotRegistered")
    /\ Statuses = {StatusBadRequest}

\* C7: Get answers a failed token extraction with 401 and every lookup
\* error, not-registered included, with 500; otherwise it answers 200 with
\* exactly the view the service returned for the extracted account.
C7_GetOutcomes ==
    (Done /\ route = RouteGet)
        => /\ OneResponse
           /\ IF ~AuthOk
              THEN responses[1].status = StatusUnauthorized /\ ~Asked
              ELSE /\ svcCalls = <<Call("TakeAccountByID", header.token, NoReq)>>
                   /\ IF answer.err # Nil
                      THEN responses[1].status = StatusInternalServerError
                      ELSE /\ responses[1].status = StatusOK
                           /\ responses[1].data = answer.view[header.token]

C7_Witness ==
    /\ Done /\ route = RouteGet /\ AuthOk
    /\ answer.err = <<"ErrAccountNotRegistered">>
    /\ Statuses = {StatusInternalServerError}

\* the statuses the HTTP table lists for each endpoint
Table ==
    CASE route = RouteGet ->
             {StatusOK, StatusUnauthorized, StatusInternalServerError}
      [] route = RouteRegister ->
             {StatusCreated, StatusBadRequest, StatusConflict,
              StatusInternalServerError}
      [] route = RouteUpdate ->
             {StatusOK, StatusBadRequest, StatusUnauthorized,
              StatusInternalServerError}
      [] route = RouteDelete ->
             {StatusOK, StatusBadRequest, StatusUnauthorized,
              StatusInternalServerError}

\* C8: every response status is one the HTTP table lists for its endpoint.
C8_StatusInTable == Done => (Statuses # {} /\ Statuses \subseteq Table)

C8_Witness ==
    /\ Done /\ route = RouteUpdate /\ AuthOk /\ body.kind = "valid"
    /\ answer.err = <<"ErrUsernameAlreadyExist">>
    /\ Statuses = {StatusBadRequest}

\* C9: on an authenticated endpoint the payload is neither bound nor
\* validated before token extraction has succeeded, and the service is
\* asked only after both.
C9_AuthenticateBeforeBind ==
    (Done /\ route \in AuthRoutes)
        => /\ (At("bind") \cup At("validate")) # {} => (AuthOk /\ At("auth") # {})
           /\ Before("auth", "bind") /\ Before("auth", "validate")
           /\ Before("bind", "svc") /\ Before("validate", "svc")

\* C10: every request is answered exactly once; the service is asked at
\* most once, and only after parsing, validation and token extraction, as
\* far as the operation has them, have succeeded; a request answered 401,
\* or 400 for its payload, never reaches the service.
C10_OneResponseServiceLast ==
    Done
        => /\ OneResponse
           /\ Len(svcCalls) <= 1
           /\ Asked => /\ route \in AuthRoutes => AuthOk
                       /\ route \in {RouteRegister, RouteUpdate}
                              => body.kind = "valid"
                       /\ Before("auth", "svc") /\ Before("bind", "svc")
                       /\ Before("validate", "svc") /\ Before("svc", "respond")
           /\ (~Asked) => answer = NoAnswer
           /\ StatusUnauthorized \in Statuses => ~Asked
           /\ (route \in {RouteRegister, RouteUpdate} /\ body.kind # "valid")
                  => (Statuses = {StatusBadRequest} /\ ~Asked)

C10_Witness ==
    /\ Done /\ route = RouteRegister /\ body.kind = "invalid"
    /\ Statuses = {StatusBadRequest} /\ ~Asked

====
